---- MODULE Spec2Model ----
(***************************************************************************)
(* Model of rust-ffi-to-c: src/main.rs declares the C function             *)
(*     fn multiply(a: c_int, b: c_int) -> c_int                            *)
(* in an extern "C" block, and main prints a greeting, an announcement,    *)
(* calls multiply(5000, 5) inside an unsafe block and prints the result.   *)
(*                                                                         *)
(* The C body of multiply is not part of src/; it is modelled from the     *)
(* specification (a * b on 32-bit signed integers, wrapping around).       *)
(*                                                                         *)
(* TLC's integers are 32 bits wide, so every product that may leave the    *)
(* 32-bit range is computed on bytes, never with the built-in product.     *)
(***************************************************************************)
EXTENDS Integers, Sequences, FiniteSets, TLC

VARIABLES
    pc,         \* main's position: the source line it is about to execute
    stdout,     \* the lines written to standard output so far
    result,     \* main's local `result`: <<>> before the let, <<v>> after
    frame,      \* the native frame of the call in progress: <<>> or <<a, b>>
    ncalls,     \* how many times main has entered the native multiply
    exit_code,  \* the process's exit code: <<>> while running, <<c>> after
    p_a,        \* a caller of the extern symbol: its first argument
    p_b,        \*   its second argument
    p_pc,       \*   its position: "ready" to call, or "returned"
    p_ret,      \*   the value its call returned: <<>> before the call
    m_call      \* one call of that caller, kept: <<>>, or <<a, b, r, n>> with
                \*   n the number of calls the caller has completed since

vars == <<pc, stdout, result, frame, ncalls, exit_code, p_a, p_b, p_pc, p_ret, m_call>>

main_vars == <<pc, stdout, result, frame, ncalls, exit_code>>

caller_vars == <<p_a, p_b, p_pc, p_ret, m_call>>

----------------------------------------------------------------------------
(* c_int: the 32-bit signed integer of the C ABI.                          *)

MaxInt == 2147483647

MinInt == -MaxInt - 1

c_int == MinInt..MaxInt

\* A c_int as it crosses the boundary by value: its four two's-complement
\* bytes, least significant first.
ToBytes(a) ==
    << a % 256, (a \div 256) % 256, (a \div 65536) % 256, (a \div 16777216) % 256 >>

\* The four bytes of the return register read as a c_int.
FromBytes(r) ==
    (IF r[4] >= 128 THEN r[4] - 256 ELSE r[4]) * 16777216
        + r[3] * 65536 + r[2] * 256 + r[1]

\* Column k (1..4) of the schoolbook product of two byte strings.
RECURSIVE Column(_, _, _, _)
Column(A, B, k, i) ==
    IF i > k THEN 0 ELSE A[i] * B[k + 1 - i] + Column(A, B, k, i + 1)

\* The C function: int multiply(int a, int b) { return a * b; } on the
\* register images of its arguments; the product is truncated to 32 bits.
native_multiply(A, B) ==
    LET c1 == Column(A, B, 1, 1)
        c2 == Column(A, B, 2, 1) + (c1 \div 256)
        c3 == Column(A, B, 3, 1) + (c2 \div 256)
        c4 == Column(A, B, 4, 1) + (c3 \div 256)
    IN  << c1 % 256, c2 % 256, c3 % 256, c4 % 256 >>

\* x + y reduced to 32 bits, for x and y in c_int.
AddW(x, y) ==
    IF x >= 0 /\ y >= 0 /\ x > MaxInt - y
        THEN ((x - MaxInt) - 1) + ((y - MaxInt) - 1)
    ELSE IF x < 0 /\ y < 0 /\ x < MinInt - y
        THEN ((x + MaxInt) + 1) + ((y + MaxInt) + 1)
    ELSE x + y

\* Whether the true product a * b lies in MinInt..MaxInt, decided by
\* division so that nothing overflows (\div rounds down, so the quotient
\* of MinInt + (a - 1) by a is MinInt / a rounded up).
Fits(a, b) ==
    IF a = 0 \/ b = 0 THEN TRUE
    ELSE IF a > 0 /\ b > 0 THEN a <= MaxInt \div b
    ELSE IF a > 0 /\ b < 0 THEN b >= (MinInt + (a - 1)) \div a
    ELSE IF a < 0 /\ b > 0 THEN a >= (MinInt + (b - 1)) \div b
    ELSE a # MinInt /\ b # MinInt /\ (-a) <= MaxInt \div (-b)

\* 2 * x reduced to 32 bits.
Dbl(x) == AddW(x, x)

\* a * k reduced to 32 bits, for k in 0..15.
SmallProduct(a, k) ==
    LET a2 == Dbl(a)
        a4 == Dbl(a2)
        a8 == Dbl(a4)
    IN  AddW(AddW(IF k % 2 = 1 THEN a ELSE 0,
                  IF (k \div 2) % 2 = 1 THEN a2 ELSE 0),
             AddW(IF (k \div 4) % 2 = 1 THEN a4 ELSE 0,
                  IF (k \div 8) % 2 = 1 THEN a8 ELSE 0))

\* The true product a * b reduced modulo 2^32 and read as a signed 32-bit
\* value, by shifting and adding over the hexadecimal digits of b:
\* reduction modulo 2^32 commutes with sums, so reducing after every step
\* reduces the true product.
RECURSIVE WrapProduct(_, _)
WrapProduct(a, b) ==
    IF b = 0 THEN 0
    ELSE IF b = -1 THEN (IF a = MinInt THEN MinInt ELSE -a)
    ELSE AddW(Dbl(Dbl(Dbl(Dbl(WrapProduct(a, b \div 16))))),
              SmallProduct(a, b % 16))

\* A declaration that reads only the low 16 bits of the return register
\* (the return type declared as a C short).
multiply_short(a, b) ==
    LET r == native_multiply(ToBytes(a), ToBytes(b))
    IN  (IF r[2] >= 128 THEN r[2] - 256 ELSE r[2]) * 256 + r[1]

\* A callee that clamps an out-of-range product instead of wrapping.
multiply_saturating(a, b) ==
    IF Fits(a, b) THEN FromBytes(native_multiply(ToBytes(a), ToBytes(b)))
    ELSE IF (a < 0) = (b < 0) THEN MaxInt ELSE MinInt

\* The symbol resolved to a function that adds its operands.
multiply_adds(a, b) == AddW(a, b)

\* A callee that counts its calls in a static and adds the count to its
\* answer (the count is read off the caller's record of its calls).
multiply_stateful(a, b) ==
    AddW(FromBytes(native_multiply(ToBytes(a), ToBytes(b))),
         IF m_call = <<>> THEN 0 ELSE m_call[4] + 1)

\* extern "C" { fn multiply(a: c_int, b: c_int) -> c_int; }
\* both operands cross by value as c_int, the result comes back as c_int.
multiply(a, b) == FromBytes(native_multiply(ToBytes(a), ToBytes(b)))

----------------------------------------------------------------------------
(* main                                                                    *)

ARG_A == 5000

ARG_B == 5

EXIT_SUCCESS == 0

HelloLine == "[Rust] Hello from Rust! U+1F980"

CallingLine == "[Rust] Calling function in C.."

\* format!("[Rust] Result: {}", v): v in decimal, with a minus sign if negative
ResultLine(v) == "[Rust] Result: " \o ToString(v)

\* println!: one more line on standard output
println(line) == stdout' = Append(stdout, line)

MainLocations == {"L9", "L12", "L14", "in_multiply", "L16", "L18", "exited"}

\* line 9
PrintHello ==
    /\ pc = "L9"
    /\ println(HelloLine)
    /\ pc' = "L12"
    /\ UNCHANGED <<result, frame, ncalls, exit_code, caller_vars>>

\* The announcement followed by a leftover debugging line.
PrintCalling_with_debug_line ==
    /\ pc = "L12"
    /\ stdout' = stdout \o <<CallingLine, "[Rust] about to call">>
    /\ pc' = "L14"
    /\ UNCHANGED <<result, frame, ncalls, exit_code, caller_vars>>

\* line 12
PrintCalling ==
    /\ pc = "L12"
    /\ println(CallingLine)
    /\ pc' = "L14"
    /\ UNCHANGED <<result, frame, ncalls, exit_code, caller_vars>>

\* The call with a mistyped second literal.
CallMultiply_wrong_literal ==
    /\ pc = "L14"
    /\ frame' = <<ARG_A, 6>>
    /\ ncalls' = ncalls + 1
    /\ pc' = "in_multiply"
    /\ UNCHANGED <<stdout, result, exit_code, caller_vars>>

\* line 14, the call: control enters the native function with copies of
\* the two literals
CallMultiply ==
    /\ pc = "L14"
    /\ frame' = <<ARG_A, ARG_B>>
    /\ ncalls' = ncalls + 1
    /\ pc' = "in_multiply"
    /\ UNCHANGED <<stdout, result, exit_code, caller_vars>>

\* A callee that never returns.
ReturnMultiply_never ==
    /\ pc = "in_multiply"
    /\ UNCHANGED vars

\* A callee that writes a line of its own before it returns.
ReturnMultiply_printing ==
    /\ pc = "in_multiply"
    /\ result' = <<multiply(frame[1], frame[2])>>
    /\ frame' = <<>>
    /\ stdout' = Append(stdout, "[C] multiply")
    /\ pc' = "L16"
    /\ UNCHANGED <<ncalls, exit_code, caller_vars>>

\* line 14, the return: the native frame is gone and `result` is bound
ReturnMultiply ==
    /\ pc = "in_multiply"
    /\ result' = <<multiply(frame[1], frame[2])>>
    /\ frame' = <<>>
    /\ pc' = "L16"
    /\ UNCHANGED <<stdout, ncalls, exit_code, caller_vars>>

\* The result line written from a value other than the one returned.
PrintResult_stale ==
    /\ pc = "L16"
    /\ println(ResultLine(0))
    /\ pc' = "L18"
    /\ UNCHANGED <<result, frame, ncalls, exit_code, caller_vars>>

\* line 16
PrintResult ==
    /\ pc = "L16"
    /\ println(ResultLine(result[1]))
    /\ pc' = "L18"
    /\ UNCHANGED <<result, frame, ncalls, exit_code, caller_vars>>

\* line 18: main returns (), the process exits with success
MainReturns ==
    /\ pc = "L18"
    /\ exit_code' = <<EXIT_SUCCESS>>
    /\ pc' = "exited"
    /\ UNCHANGED <<stdout, result, frame, ncalls, caller_vars>>

main ==
    \/ PrintHello
    \/ PrintCalling
    \/ CallMultiply
    \/ ReturnMultiply
    \/ PrintResult
    \/ MainReturns

----------------------------------------------------------------------------
(* Any caller of the declared symbol: the declaration admits every pair    *)
(* of c_int arguments.                                                     *)

MaxSmall == 2

MaxSince == 2

Inputs ==
    (-MaxSmall..MaxSmall)
        \cup {MinInt, MaxInt, 46340, 46341, -46341, 5000, 65536, 100000, -100000}

\* the kept call after one more call of the caller has completed
Counted(m) == IF m = <<>> THEN m ELSE <<m[1], m[2], m[3], m[4] + 1>>

\* the caller sets the first argument of its next call
ChooseA ==
    /\ \E a \in Inputs : p_a' = a
    /\ p_pc' = "ready"
    /\ p_ret' = <<>>
    /\ UNCHANGED <<p_b, m_call, main_vars>>

\* the caller sets the second argument of its next call
ChooseB ==
    /\ \E b \in Inputs : p_b' = b
    /\ p_pc' = "ready"
    /\ p_ret' = <<>>
    /\ UNCHANGED <<p_a, m_call, main_vars>>

\* A call that traps when the product overflows, and returns nothing.
CallerCalls_trapping ==
    /\ p_pc = "ready"
    /\ m_call # <<>> => m_call[4] < MaxSince
    /\ IF Fits(p_a, p_b)
          THEN p_pc' = "returned" /\ p_ret' = <<multiply(p_a, p_b)>>
          ELSE p_pc' = "trapped" /\ p_ret' = <<>>
    /\ m_call' = Counted(m_call)
    /\ UNCHANGED <<p_a, p_b, main_vars>>

\* the caller performs unsafe { multiply(p_a, p_b) } and gets the value
CallerCalls ==
    /\ p_pc = "ready"
    /\ m_call # <<>> => m_call[4] < MaxSince
    /\ p_pc' = "returned"
    /\ p_ret' = <<multiply(p_a, p_b)>>
    /\ m_call' = Counted(m_call)
    /\ UNCHANGED <<p_a, p_b, main_vars>>

\* the caller keeps the call it has just made
KeepCall ==
    /\ m_call = <<>>
    /\ p_pc = "returned"
    /\ m_call' = <<p_a, p_b, p_ret[1], 0>>
    /\ UNCHANGED <<p_a, p_b, p_pc, p_ret, main_vars>>

----------------------------------------------------------------------------

Init ==
    /\ pc = "L9"
    /\ stdout = <<>>
    /\ result = <<>>
    /\ frame = <<>>
    /\ ncalls = 0
    /\ exit_code = <<>>
    /\ p_a \in Inputs
    /\ p_b \in Inputs
    /\ p_pc = "ready"
    /\ p_ret = <<>>
    /\ m_call = <<>>

Next ==
    \/ main
    \/ ChooseA
    \/ ChooseB
    \/ CallerCalls

Spec == Init /\ [][Next]_vars

\* main is the only thread and none of its steps blocks: it runs on
FairSpec == Spec /\ WF_vars(main)

\* the caller alone, making call after call and keeping one of them
HistoryNext ==
    \/ ChooseA
    \/ ChooseB
    \/ CallerCalls
    \/ KeepCall

HistorySpec == Init /\ [][HistoryNext]_vars

----------------------------------------------------------------------------
(* The lines of a finished run, as main writes them.                       *)

ExpectedResultLine == "[Rust] Result: 25000"

AfterCall == {"L16", "L18", "exited"}

\* the caller has made the call whose arguments are p_a and p_b
Called == p_pc # "ready"

----------------------------------------------------------------------------
\* C1: whenever the true product of the two arguments lies in the 32-bit
\* signed range, the call returns exactly that product.
C1_ExactWhenFits ==
    (Called /\ Fits(p_a, p_b)) => p_ret = <<p_a * p_b>>

\* a call whose product fits, just below the upper end of the range
C1_Witness ==
    /\ Called
    /\ p_a = 46340 /\ p_b = 46340
    /\ Fits(p_a, p_b)
    /\ p_ret = <<2147395600>>

\* C2: whenever the true product leaves the 32-bit signed range, the call
\* returns that product reduced modulo 2^32 and read as a signed value
\* (100000 * 100000 = 10^10 comes back as 1410065408), and it returns
\* normally: the overflow is not reported.
C2_WrapsWhenOverflows ==
    (Called /\ ~Fits(p_a, p_b)) =>
        /\ p_pc = "returned"
        /\ p_ret = <<WrapProduct(p_a, p_b)>>
        /\ (p_a = 100000 /\ p_b = 100000) => p_ret = <<1410065408>>
        /\ (p_a = 65536 /\ p_b = 65536) => p_ret = <<0>>
        /\ (p_a = MinInt /\ p_b = -1) => p_ret = <<MinInt>>

\* the overflowing call of the example
C2_Witness ==
    /\ p_pc = "returned"
    /\ p_a = 100000 /\ p_b = 100000
    /\ ~Fits(p_a, p_b)
    /\ p_ret = <<1410065408>>

\* C3 as stated: in main's run the call returns 25000, and the whole output
\* is one banner line followed by the result line.
C3_AsStated ==
    (pc = "exited") =>
        /\ result = <<25000>>
        /\ Len(stdout) = 2
        /\ stdout[1] \in {HelloLine, CallingLine}
        /\ stdout[2] \in {"Result: 25000", ExpectedResultLine}

\* C3, amended: in main's run the call multiply(5000, 5) returns 25000, and
\* the whole output is the greeting line, the announcement line and then
\* the line "[Rust] Result: 25000".
C3_Amended ==
    /\ (pc \in AfterCall) => result = <<25000>>
    /\ (pc \in {"L18", "exited"}) =>
            stdout = <<HelloLine, CallingLine, ExpectedResultLine>>

\* main has finished, with its three lines written
C3_Witness ==
    /\ pc = "exited"
    /\ result = <<25000>>
    /\ stdout = <<HelloLine, CallingLine, ExpectedResultLine>>

\* C4 as stated: a run writes exactly two lines, the announcement and then
\* the result line, and never any other line.
C4_AsStated ==
    /\ Len(stdout) <= 2
    /\ (pc = "exited") =>
            /\ Len(stdout) = 2
            /\ stdout[1] = CallingLine
            /\ stdout[2] = "[Rust] Result: " \o ToString(result[1])

\* C4, amended: a run writes exactly three lines, in this order: the
\* greeting, the announcement, and "[Rust] Result: <value>" with <value>
\* the call's result in signed decimal; no other line is ever written.
C4_Amended ==
    /\ Len(stdout) <= 3
    /\ (Len(stdout) >= 1) => stdout[1] = HelloLine
    /\ (Len(stdout) >= 2) => stdout[2] = CallingLine
    /\ (Len(stdout) = 3) =>
            /\ result # <<>>
            /\ stdout[3] = "[Rust] Result: " \o ToString(result[1])
    /\ (pc = "exited") => Len(stdout) = 3

\* the run is over and three lines are out, the last one the result line
C4_Witness ==
    /\ pc = "exited"
    /\ Len(stdout) = 3
    /\ stdout[3] = "[Rust] Result: " \o ToString(result[1])

C7_ZeroTimesAnything ==
    (Called /\ p_a = 0) => p_ret = <<0>>

\* zero times the most negative integer
C7_Witness == p_pc = "returned" /\ p_a = 0 /\ p_b = MinInt /\ p_ret = <<0>>

C9_State ==
    /\ ncalls = (IF pc \in {"L9", "L12", "L14"} THEN 0 ELSE 1)
    /\ (pc = "in_multiply") <=> (frame # <<>>)
    /\ (frame # <<>>) =>
            (frame = <<5000, 5>> /\ stdout = <<HelloLine, CallingLine>>)
    /\ (Len(stdout) >= 3) =>
            /\ pc \in {"L18", "exited"}
            /\ result # <<>>
            /\ stdout[3] = "[Rust] Result: " \o ToString(result[1])
    /\ (pc = "exited") => (ncalls = 1 /\ Len(stdout) = 3)

\* C9: main enters the native multiply exactly once, with (5000, 5), after
\* the announcement is out; nothing is printed while the call is in
\* progress; the result line appears only after the call has returned and
\* shows the value the call returned.
C9_Ordering ==
    /\ []C9_State
    /\ [][(pc = "in_multiply") => (stdout' = stdout)]_vars
    /\ [][(pc = "in_multiply" /\ pc' # pc) =>
              (pc' = "L16" /\ result' = <<multiply(frame[1], frame[2])>>)]_vars
    /\ [][(result # <<>>) => (result' = result)]_vars
    /\ [][(ncalls' # ncalls) => (pc = "L14" /\ stdout = <<HelloLine, CallingLine>>)]_vars

\* the result line is out, after exactly one call
C9_Witness ==
    /\ pc = "L18"
    /\ ncalls = 1
    /\ frame = <<>>
    /\ stdout = <<HelloLine, CallingLine, ExpectedResultLine>>

\* C10: a call changes nothing but the caller's result: the caller's call
\* leaves its arguments, the output and main alone; main's call leaves the
\* output, the exit code and the other caller alone, entering it writes
\* only the native frame, and returning from it binds `result` and leaves
\* no frame behind.
C10_CallFrame ==
    /\ [][(p_pc = "ready" /\ p_pc' # "ready") =>
              (p_a' = p_a /\ p_b' = p_b /\ UNCHANGED main_vars)]_vars
    /\ [][(pc = "L14" /\ pc' # pc) =>
              (frame' = <<ARG_A, ARG_B>> /\
               UNCHANGED <<stdout, result, exit_code, caller_vars>>)]_vars
    /\ [][(pc = "in_multiply" /\ pc' # pc) =>
              (frame' = <<>> /\
               UNCHANGED <<stdout, ncalls, exit_code, caller_vars>>)]_vars
    /\ []((pc # "in_multiply") => (frame = <<>>))

\* main's call has just returned: the result is bound, no frame is left and
\* the output is what it was before the call
C10_Witness ==
    /\ pc = "L16"
    /\ result = <<25000>>
    /\ frame = <<>>
    /\ stdout = <<HelloLine, CallingLine>>
    /\ exit_code = <<>>

====
